---- MODULE Spec2Model ----
(***************************************************************************)
(* tapLock FastAPI gate (py/taplock/taplock/fastapi.py): the session       *)
(* resolver TapLock._handle_request, the login / callback / logout         *)
(* handlers, the per-route gate TapLock._secure_impl and the blanket       *)
(* middleware TapLockMiddleware.dispatch, together with the browser's      *)
(* cookie jar that carries the cookies from one response to the next       *)
(* request.  The identity-provider client (TapLockClient) is external: its *)
(* answers are inputs of each request.                                     *)
(***************************************************************************)
EXTENDS Integers, Sequences, FiniteSets, TLC

(* ------------------------------------------------------------------ *)
(* Bounds of the model                                                 *)
(* ------------------------------------------------------------------ *)

\* Number of distinct non-empty token strings a cookie may carry (per kind).
NumTokens == 1

\* Number of distinct error messages the provider may raise.
NumErrors == 1
NumRequests == 2

(* ------------------------------------------------------------------ *)
(* Python values                                                       *)
(* ------------------------------------------------------------------ *)

\* Python's None: a value different from every string of the model.
None == "<None>"

\* Python truthiness of an Optional[str]: None and "" are falsy.
Truthy(v) == v # None /\ v # ""

\* dict.get(key, default)
Get(d, k, default) == IF k \in DOMAIN d THEN d[k] ELSE default

\* The dict {k: val[k] for the keys whose value is given}: val[k] = None leaves k out.
DictOf(val) == [k \in {n \in DOMAIN val : val[n] # None} |-> val[k]]

EmptyDict == DictOf([k \in {"k"} |-> None])

(* ------------------------------------------------------------------ *)
(* Program constants                                                   *)
(* ------------------------------------------------------------------ *)

\* get_access_token_cookie_name() / get_refresh_token_cookie_name() /
\* get_taplock_callback_endpoint(): fixed for the life of the process.
AccessTokenCookie == "taplock_access_token"
RefreshTokenCookie == "taplock_refresh_token"
CallbackEndpoint == "/auth/callback"

ReturnToCookie == "taplock_return_to"
ReturnToMaxAge == 300
NoMaxAge == -1

StatusRedirect == 307
StatusUnauthorized == 401
StatusBadRequest == 400

DetailNotAuthenticated == "Not authenticated"
DetailSessionExpired == "Session expired"
DetailNoCode == "Authorization code not found"
DetailExchangePrefix == "Failed to exchange code: "
DetailFallback == "unauthorized"
NotInitializedMessage == "TapLock client not initialized. Please call init_* method in your FastAPI lifespan."

\* self.client after __init__ is the class TapLockClient itself; after an
\* init_* call it is a client instance.
ClientClass == "TapLockClient"
ClientInstance == "client"

(* ------------------------------------------------------------------ *)
(* Input domains                                                       *)
(* ------------------------------------------------------------------ *)

AccessTokens == {"at" \o ToString(i) : i \in 1..NumTokens}
RefreshTokens == {"rt" \o ToString(i) : i \in 1..NumTokens}
ErrorMessages == {"provider error " \o ToString(i) : i \in 1..NumErrors}

\* Tokens the provider mints on a code or refresh exchange.
NewAccessToken == "at_new"
NewRefreshToken == "rt_new"

AuthorizationUrl == "https://idp.example/authorize"

\* Values the browser may hold in the return-to cookie before any request.
ReturnToValues == {"", "/dashboard", "https://evil.example/"}

\* The requests' URLs: path and full URL (str(request.url)).
AppPaths == {"/dashboard", CallbackEndpoint}
FullUrl(path) == "http://localhost:8000" \o path

\* return_to of the policy: None (not given), the empty string, a path.
PolicyReturnTo == {None, "", "/home"}

\* The "code" query parameter: absent, empty, or a code.
Codes == {None, "", "code1"}

CookieDict(a, r, t) ==
  DictOf([k \in {AccessTokenCookie, RefreshTokenCookie, ReturnToCookie} |->
            IF k = AccessTokenCookie THEN a
            ELSE IF k = RefreshTokenCookie THEN r ELSE t])

CookieDicts ==
  { CookieDict(a, r, t) : a \in {None, ""} \cup AccessTokens,
                          r \in {None, ""} \cup RefreshTokens,
                          t \in {None} \cup ReturnToValues }

\* The dicts the provider may return from decode_access_token,
\* exchange_refresh_token and exchange_code (Dict[str, Any]).
TokenData(a, r, f) ==
  DictOf([k \in {"access_token", "refresh_token", "fields"} |->
            IF k = "access_token" THEN a
            ELSE IF k = "refresh_token" THEN r ELSE f])

TokenDatas ==
  { TokenData(a, r, f) : a \in {None, "", NewAccessToken},
                         r \in {None, NewRefreshToken},
                         f \in {None, "claims"} }

\* A provider answer: a returned dict, or a raised exception with its message.
Returned(d) == [ok |-> TRUE, data |-> d, error |-> None]
Raised(msg) == [ok |-> FALSE, data |-> EmptyDict, error |-> msg]
Answers == {Returned(d) : d \in TokenDatas} \cup {Raised(m) : m \in ErrorMessages}

(* ------------------------------------------------------------------ *)
(* Responses, cookies and outcomes                                     *)
(* ------------------------------------------------------------------ *)

\* A set_cookie call that leaves httponly and secure at their defaults.
SetCookieDefaultFlags(key, value, max_age) ==
  [op |-> "set", key |-> key, value |-> value, httponly |-> FALSE,
   secure |-> FALSE, samesite |-> "lax", max_age |-> max_age]

\* response.set_cookie(key, value, httponly=True, secure=True, samesite="lax"[, max_age])
SetCookie(key, value, max_age) ==
  [op |-> "set", key |-> key, value |-> value, httponly |-> TRUE,
   secure |-> TRUE, samesite |-> "lax", max_age |-> max_age]

\* response.delete_cookie(key)
DeleteCookie(key) ==
  [op |-> "delete", key |-> key, value |-> "", httponly |-> FALSE,
   secure |-> FALSE, samesite |-> "lax", max_age |-> 0]

\* What one handler invocation produced.  kind is
\*   "return"         _handle_request returned token_data
\*   "authorized"     the gate admitted the request
\*   "response"       a Response object was returned
\*   "http_exception" an HTTPException was raised
\*   "error"          any other exception was raised
\* calls is the sequence of provider operations invoked, cookies the
\* sequence of cookie operations on the outbound response (or, for an
\* HTTPException, in its headers), downstream the number of call_next
\* invocations, steps the adapter's statements after the resolver returned,
\* in program order.
Blank ==
  [kind |-> "none", status |-> 0, detail |-> None, location |-> None,
   cookies |-> <<>>, token_data |-> EmptyDict, claims |-> None,
   error |-> None, calls |-> <<>>, downstream |-> 0, steps |-> <<>>]

Call(op, arg) == [op |-> op, arg |-> arg]

\* http.HTTPStatus(status_code).phrase, for the statuses the gate raises.
HTTPPhrase(status) ==
  IF status = StatusRedirect THEN "Temporary Redirect"
  ELSE IF status = StatusUnauthorized THEN "Unauthorized"
  ELSE "Bad Request"

\* raise HTTPException(status_code, detail, headers): a detail left out
\* becomes the status phrase; headers are (location, cookies).
HTTPException(status, detail, location, cookies, calls) ==
  [Blank EXCEPT !.kind = "http_exception", !.status = status,
                !.detail = IF detail = None THEN HTTPPhrase(status) ELSE detail,
                !.location = location, !.cookies = cookies, !.calls = calls]

RaiseError(msg, calls) ==
  [Blank EXCEPT !.kind = "error", !.error = msg, !.calls = calls]

(* ------------------------------------------------------------------ *)
(* The provider client                                                 *)
(* ------------------------------------------------------------------ *)

\* Invoking a client method on self.client.  On an initialized TapLock the
\* client instance answers; before any init_* call self.client is the class
\* TapLockClient, and calling an instance method on the class raises
\* TypeError.
ProviderCall(cl, answer) ==
  IF cl = ClientInstance THEN answer ELSE Raised("TypeError")

(* ------------------------------------------------------------------ *)
(* Helpers                                                             *)
(* ------------------------------------------------------------------ *)

\* TapLock._check_init: TRUE when the check passes, FALSE when it raises
\* RuntimeError.  The check is `if not self.client`.
CheckInit(cl) == Truthy(cl)

\* _set_cookies that forgets the refresh cookie
SetCookiesAccessOnly(cookies, token_data) ==
  LET access_token == Get(token_data, "access_token", None)
  IN IF Truthy(access_token)
     THEN Append(cookies, SetCookie(AccessTokenCookie, access_token, NoMaxAge))
     ELSE cookies

\* TapLock._set_cookies(response, token_data): the response's cookies after it.
SetCookies(cookies, token_data) ==
  LET access_token == Get(token_data, "access_token", None)
      refresh_token == Get(token_data, "refresh_token", None)
      c1 == IF Truthy(access_token)
            THEN Append(cookies, SetCookie(AccessTokenCookie, access_token, NoMaxAge))
            ELSE cookies
  IN IF Truthy(refresh_token)
     THEN Append(c1, SetCookie(RefreshTokenCookie, refresh_token, NoMaxAge))
     ELSE c1

(* ------------------------------------------------------------------ *)
(* Route handlers                                                      *)
(* ------------------------------------------------------------------ *)

\* A login that stores its default destination "/" whatever return_to is.
LoginStoresDefault(cl, return_to) ==
  IF ~CheckInit(cl) THEN RaiseError(NotInitializedMessage, <<>>)
  ELSE LET auth == ProviderCall(cl, [ok |-> TRUE, data |-> AuthorizationUrl, error |-> None])
           calls == <<Call("get_authorization_url", None)>>
       IN IF ~auth.ok THEN RaiseError(auth.error, calls)
          ELSE [Blank EXCEPT !.kind = "response", !.status = StatusRedirect,
                             !.location = auth.data,
                             !.cookies = <<SetCookie(ReturnToCookie, "/", ReturnToMaxAge)>>,
                             !.calls = calls]

\* TapLock.login(return_to): a RedirectResponse (307) to the provider's
\* authorization URL carrying the return-to cookie.
Login(cl, return_to) ==
  IF ~CheckInit(cl) THEN RaiseError(NotInitializedMessage, <<>>)
  ELSE LET auth == ProviderCall(cl, [ok |-> TRUE, data |-> AuthorizationUrl, error |-> None])
           calls == <<Call("get_authorization_url", None)>>
       IN IF ~auth.ok THEN RaiseError(auth.error, calls)
          ELSE [Blank EXCEPT !.kind = "response", !.status = StatusRedirect,
                             !.location = auth.data,
                             !.cookies = <<SetCookie(ReturnToCookie, return_to, ReturnToMaxAge)>>,
                             !.calls = calls]

\* TapLock.login_headers(return_to): dict(response.headers) without
\* content-length.  A dict keeps one value per header name, so of several
\* set-cookie headers the last one stays.
LoginHeaders(cl, return_to) ==
  LET response == Login(cl, return_to)
  IN IF response.kind # "response" THEN response
     ELSE [response EXCEPT !.cookies =
             IF Len(response.cookies) = 0 THEN <<>>
             ELSE <<response.cookies[Len(response.cookies)]>>]

\* `if not code` tested as `if code is None`
CodeIsNone(code) == code = None

\* `if not code`: the code query parameter is absent or empty
CodeMissing(code) == ~Truthy(code)

\* return_to read without the cookie: always the default
ReturnToDefaultOnly(cookies) == "/"

\* request.cookies.get("taplock_return_to", "/")
ReturnTo(cookies) == Get(cookies, ReturnToCookie, "/")

\* callback that clears the return-to cookie when the exchange fails too
CallbackClearsOnFailure(cl, code, cookies, answer) ==
  IF ~CheckInit(cl) THEN RaiseError(NotInitializedMessage, <<>>)
  ELSE IF CodeMissing(code)
  THEN HTTPException(StatusBadRequest, DetailNoCode, None, <<>>, <<>>)
  ELSE LET token == ProviderCall(cl, answer)
           calls == <<Call("exchange_code", code)>>
       IN IF ~token.ok
          THEN HTTPException(StatusBadRequest, DetailExchangePrefix \o token.error,
                             None, <<DeleteCookie(ReturnToCookie)>>, calls)
          ELSE [Blank EXCEPT !.kind = "response", !.status = StatusRedirect,
                             !.location = ReturnTo(cookies),
                             !.cookies = Append(SetCookies(<<>>, token.data),
                                                DeleteCookie(ReturnToCookie)),
                             !.token_data = token.data,
                             !.calls = calls]

\* TapLock.callback(request)
Callback(cl, code, cookies, answer) ==
  IF ~CheckInit(cl) THEN RaiseError(NotInitializedMessage, <<>>)
  ELSE IF CodeMissing(code)
  THEN HTTPException(StatusBadRequest, DetailNoCode, None, <<>>, <<>>)
  ELSE LET token == ProviderCall(cl, answer)
           calls == <<Call("exchange_code", code)>>
       IN IF ~token.ok
          THEN HTTPException(StatusBadRequest, DetailExchangePrefix \o token.error,
                             None, <<>>, calls)
          ELSE LET return_to == ReturnTo(cookies)
               IN [Blank EXCEPT !.kind = "response", !.status = StatusRedirect,
                                !.location = return_to,
                                !.cookies = Append(SetCookies(<<>>, token.data),
                                                   DeleteCookie(ReturnToCookie)),
                                !.token_data = token.data,
                                !.calls = calls]

\* A logout that leaves the refresh cookie in place.
LogoutAccessOnly ==
  [Blank EXCEPT !.kind = "response", !.status = 200,
                !.detail = "Logged out",
                !.cookies = <<DeleteCookie(AccessTokenCookie)>>]

\* TapLock.logout(response)
Logout ==
  [Blank EXCEPT !.kind = "response", !.status = 200,
                !.detail = "Logged out",
                !.cookies = <<DeleteCookie(AccessTokenCookie),
                              DeleteCookie(RefreshTokenCookie)>>]

(* ------------------------------------------------------------------ *)
(* The session resolver and the gate adapters                          *)
(* ------------------------------------------------------------------ *)

\* target = return_to or str(request.url), with a variant that always takes
\* the request's URL
TargetIgnoringPolicy(return_to, url) == url

Target(return_to, url) == IF Truthy(return_to) THEN return_to ELSE url

\* FailBranch with redirect_on_fail ignored: always the 401
FailBranchNeverRedirects(cl, redirect_on_fail, return_to, url, detail, calls) ==
  HTTPException(StatusUnauthorized, detail, None, <<>>, calls)

\* FailBranch with one reason for both failures
FailBranchOneReason(cl, redirect_on_fail, return_to, url, detail, calls) ==
  IF redirect_on_fail
  THEN LET login_headers == LoginHeaders(cl, Target(return_to, url))
       IN IF login_headers.kind # "response"
          THEN [login_headers EXCEPT !.calls = calls \o login_headers.calls]
          ELSE HTTPException(StatusRedirect, None, login_headers.location,
                             login_headers.cookies, calls \o login_headers.calls)
  ELSE HTTPException(StatusUnauthorized, DetailSessionExpired, None, <<>>, calls)

\* The failure branch shared by "no refresh cookie" and "refresh failed":
\* redirect to login with the return-to captured, or 401 with `detail`.
FailBranch(cl, redirect_on_fail, return_to, url, detail, calls) ==
  IF redirect_on_fail
  THEN LET target == Target(return_to, url)
           login_headers == LoginHeaders(cl, target)
       IN IF login_headers.kind # "response"
          THEN [login_headers EXCEPT !.calls = calls \o login_headers.calls]
          ELSE HTTPException(StatusRedirect, None, login_headers.location,
                             login_headers.cookies, calls \o login_headers.calls)
  ELSE HTTPException(StatusUnauthorized, detail, None, <<>>, calls)

\* A resolver that gives up when decode_access_token raised, without trying
\* the refresh cookie.
HandleRequestNoRefreshAfterDecode(cl, cookies, redirect_on_fail, return_to, url, decode, refresh) ==
  IF ~CheckInit(cl) THEN RaiseError(NotInitializedMessage, <<>>)
  ELSE
    LET access_token == Get(cookies, AccessTokenCookie, None)
        decoded == ProviderCall(cl, decode)
        calls1 == IF Truthy(access_token)
                  THEN <<Call("decode_access_token", access_token)>>
                  ELSE <<>>
    IN IF Truthy(access_token) /\ decoded.ok
       THEN [Blank EXCEPT !.kind = "return", !.token_data = decoded.data,
                          !.calls = calls1]
       ELSE
         LET refresh_token == Get(cookies, RefreshTokenCookie, None)
         IN IF ~Truthy(refresh_token) \/ Truthy(access_token)
            THEN FailBranch(cl, redirect_on_fail, return_to, url,
                            DetailNotAuthenticated, calls1)
            ELSE
              LET refreshed == ProviderCall(cl, refresh)
                  calls2 == Append(calls1, Call("exchange_refresh_token", refresh_token))
              IN IF refreshed.ok
                 THEN [Blank EXCEPT !.kind = "return", !.token_data = refreshed.data,
                                    !.calls = calls2]
                 ELSE FailBranch(cl, redirect_on_fail, return_to, url,
                                 DetailSessionExpired, calls2)

\* TapLock._handle_request(request, redirect_on_fail, return_to).
\* decode and refresh are the provider's answers to decode_access_token and
\* exchange_refresh_token, used only if the operation is invoked.
HandleRequest(cl, cookies, redirect_on_fail, return_to, url, decode, refresh) ==
  IF ~CheckInit(cl) THEN RaiseError(NotInitializedMessage, <<>>)
  ELSE
    LET access_token == Get(cookies, AccessTokenCookie, None)
        decoded == ProviderCall(cl, decode)
        calls1 == IF Truthy(access_token)
                  THEN <<Call("decode_access_token", access_token)>>
                  ELSE <<>>
    IN IF Truthy(access_token) /\ decoded.ok
       THEN [Blank EXCEPT !.kind = "return", !.token_data = decoded.data,
                          !.calls = calls1]
       ELSE
         LET refresh_token == Get(cookies, RefreshTokenCookie, None)
         IN IF ~Truthy(refresh_token)
            THEN FailBranch(cl, redirect_on_fail, return_to, url,
                            DetailNotAuthenticated, calls1)
            ELSE
              LET refreshed == ProviderCall(cl, refresh)
                  calls2 == Append(calls1, Call("exchange_refresh_token", refresh_token))
              IN IF refreshed.ok
                 THEN [Blank EXCEPT !.kind = "return", !.token_data = refreshed.data,
                                    !.calls = calls2]
                 ELSE FailBranch(cl, redirect_on_fail, return_to, url,
                                 DetailSessionExpired, calls2)

\* A dependency that returns the claims and leaves the response alone.
SecureImplWritesNoCookie(cl, cookies, redirect_on_fail, return_to, url, decode, refresh) ==
  LET r == HandleRequest(cl, cookies, redirect_on_fail, return_to, url, decode, refresh)
  IN IF r.kind # "return" THEN r
     ELSE [r EXCEPT !.kind = "authorized",
                    !.claims = Get(r.token_data, "fields", r.token_data)]

\* TapLock._secure_impl (the dependency returned by secure(), and __call__):
\* on a returned token_data, _set_cookies on the response passed in and the
\* claims returned to the endpoint; an exception of _handle_request goes on.
SecureImpl(cl, cookies, redirect_on_fail, return_to, url, decode, refresh) ==
  LET r == HandleRequest(cl, cookies, redirect_on_fail, return_to, url, decode, refresh)
  IN IF r.kind # "return" THEN r
     ELSE [r EXCEPT !.kind = "authorized",
                    !.cookies = SetCookies(<<>>, r.token_data),
                    !.claims = Get(r.token_data, "fields", r.token_data),
                    !.steps = <<"_set_cookies">>]

\* A dispatch without the callback branch: the callback path is resolved
\* like any other path.
DispatchResolvesCallback(cl, path, cookies, redirect_on_fail, return_to, url, decode, refresh, code, exchange) ==
  LET r == HandleRequest(cl, cookies, redirect_on_fail, return_to, url, decode, refresh)
  IN IF r.kind = "http_exception"
     THEN [r EXCEPT !.kind = "response",
                    !.detail = IF Truthy(r.detail) THEN r.detail ELSE DetailFallback]
     ELSE IF r.kind # "return" THEN r
     ELSE [r EXCEPT !.kind = "authorized",
                    !.downstream = 1,
                    !.cookies = SetCookies(<<>>, r.token_data),
                    !.steps = <<"call_next", "_set_cookies">>]

\* A dispatch that invokes the downstream handler before it resolves the
\* session, whatever the resolution.
DispatchCallsNextFirst(cl, path, cookies, redirect_on_fail, return_to, url, decode, refresh, code, exchange) ==
  IF path = CallbackEndpoint
  THEN Callback(cl, code, cookies, exchange)
  ELSE
    LET r == HandleRequest(cl, cookies, redirect_on_fail, return_to, url, decode, refresh)
    IN IF r.kind = "http_exception"
       THEN [r EXCEPT !.kind = "response",
                      !.downstream = 1,
                      !.detail = IF Truthy(r.detail) THEN r.detail ELSE DetailFallback]
       ELSE IF r.kind # "return" THEN [r EXCEPT !.downstream = 1]
       ELSE [r EXCEPT !.kind = "authorized",
                      !.downstream = 1,
                      !.cookies = SetCookies(<<>>, r.token_data),
                      !.steps = <<"call_next", "_set_cookies">>]

\* TapLockMiddleware.dispatch(request, call_next).  The downstream handler's
\* response carries no cookie of its own.
Dispatch(cl, path, cookies, redirect_on_fail, return_to, url, decode, refresh, code, exchange) ==
  IF path = CallbackEndpoint
  THEN Callback(cl, code, cookies, exchange)
  ELSE
    LET r == HandleRequest(cl, cookies, redirect_on_fail, return_to, url, decode, refresh)
    IN IF r.kind = "http_exception"
       THEN [r EXCEPT !.kind = "response",
                      !.detail = IF Truthy(r.detail) THEN r.detail ELSE DetailFallback]
       ELSE IF r.kind # "return" THEN r
       ELSE [r EXCEPT !.kind = "authorized",
                      !.downstream = 1,
                      !.cookies = SetCookies(<<>>, r.token_data),
                      !.steps = <<"call_next", "_set_cookies">>]

(* ------------------------------------------------------------------ *)
(* The browser                                                         *)
(* ------------------------------------------------------------------ *)

RECURSIVE ApplyCookies(_, _)
\* The cookie jar after the browser has applied the cookie operations of a
\* response, in order.
ApplyCookies(j, ops) ==
  IF ops = <<>> THEN j
  ELSE LET c == Head(ops)
           j1 == IF c.op = "set"
                 THEN [k \in DOMAIN j \cup {c.key} |-> IF k = c.key THEN c.value ELSE j[k]]
                 ELSE [k \in DOMAIN j \ {c.key} |-> j[k]]
       IN ApplyCookies(j1, Tail(ops))

\* An outcome's cookies reach the browser unless the handler ended in an
\* exception that is no HTTPException (a 500 without the headers).
Delivered(out) == IF out.kind = "error" THEN <<>> ELSE out.cookies

(* ------------------------------------------------------------------ *)
(* State                                                               *)
(* ------------------------------------------------------------------ *)

VARIABLES
  client,   \* TapLock.client
  jar,      \* the browser's cookies
  req,      \* the last request served: handler, inputs, client and history before it
  out,      \* its outcome
  issued,   \* history: the jar's return-to cookie was set by login
  hist,     \* history: the login round trip under way, and logout
  conc      \* the requests in flight when requests are served step by step

vars == <<client, jar, req, out, issued, hist, conc>>

\* hist.stage follows a login round trip of the browser: 1 after a gated
\* request without credential cookies was redirected to login (no explicit
\* return_to), 2 after the callback that follows it exchanged its code,
\* 3 after the gated request to the same URL that follows that; 0 otherwise.
\* hist.url is the URL of the first request, hist.token the access token the
\* callback's exchange issued.  hist.logged_out holds from a logout until a
\* later callback or refresh succeeds.
NoHistory == [stage |-> 0, url |-> None, token |-> None, logged_out |-> FALSE]

\* The answer slot of a provider operation the request never invokes.
NotAsked == [ok |-> FALSE, data |-> EmptyDict, error |-> "not asked"]

\* The concurrent requests, each one task of the event loop.
ConcRequests == 1..NumRequests

\* One request in flight: its position (pc), its adapter, its own inputs, the
\* locals of _handle_request (token_data, the provider calls made so far)
\* and its outcome.  pc is "idle", "await_refresh" (suspended at the await of
\* exchange_refresh_token), "await_call_next" (suspended at the await of
\* call_next), "done" or "cancelled".
IdleRequest ==
  [pc |-> "idle", handler |-> "none", cookies |-> EmptyDict,
   redirect_on_fail |-> FALSE, decode |-> NotAsked, refresh |-> NotAsked,
   calls |-> <<>>, token_data |-> EmptyDict, result |-> Blank]

NoneInFlight == [i \in ConcRequests |-> IdleRequest]

NoRequest ==
  [handler |-> "none", path |-> None, url |-> None, cookies |-> EmptyDict,
   redirect_on_fail |-> FALSE, return_to |-> None, code |-> None,
   client |-> ClientClass, decode |-> NotAsked, refresh |-> NotAsked,
   exchange |-> NotAsked, issued |-> FALSE, logged_out |-> FALSE]

Init ==
  /\ client = ClientClass
  /\ jar \in CookieDicts
  /\ req = NoRequest
  /\ out = Blank
  /\ issued = FALSE
  /\ hist = NoHistory
  /\ conc = NoneInFlight

\* init_google / init_entra_id / init_keycloak (and the *_from_env variants)
InitClient ==
  /\ req = NoRequest
  /\ client' = ClientInstance
  /\ UNCHANGED <<jar, req, out, issued, hist, conc>>

\* The provider answers only the operations the request puts to it: the
\* answers of the others are not inputs of the request.
DecodeAnswers ==
  IF client = ClientInstance /\ Truthy(Get(jar, AccessTokenCookie, None))
  THEN Answers ELSE {NotAsked}

RefreshAnswers(decode) ==
  IF client = ClientInstance /\ ~decode.ok /\ Truthy(Get(jar, RefreshTokenCookie, None))
  THEN Answers ELSE {NotAsked}

ExchangeAnswers(code) ==
  IF client = ClientInstance /\ Truthy(code) THEN Answers ELSE {NotAsked}

\* The history after the request r, served with outcome o.
NextHistory(r, o) ==
  LET gated == r.handler = "secure" \/ (r.handler = "middleware" /\ r.path # CallbackEndpoint)
      callback == r.handler = "callback" \/ (r.handler = "middleware" /\ r.path = CallbackEndpoint)
      exchanged == callback /\ o.kind = "response"
      refreshed == gated /\ o.kind = "authorized" /\ r.refresh.ok
      stage == IF /\ gated /\ o.status = StatusRedirect /\ r.return_to = None
                  /\ ~Truthy(Get(jar, AccessTokenCookie, None))
                  /\ ~Truthy(Get(jar, RefreshTokenCookie, None))
               THEN 1
               ELSE IF hist.stage = 1 /\ exchanged THEN 2
               ELSE IF hist.stage = 2 /\ gated /\ r.url = hist.url THEN 3
               ELSE 0
  IN [stage |-> stage,
      url |-> IF stage = 1 THEN r.url ELSE IF stage = 0 THEN None ELSE hist.url,
      token |-> IF stage = 2 THEN Get(o.token_data, "access_token", None)
                ELSE IF stage = 3 THEN hist.token ELSE None,
      logged_out |-> IF r.handler = "logout" THEN TRUE
                     ELSE IF exchanged \/ refreshed THEN FALSE
                     ELSE hist.logged_out]

\* The browser sends its cookies, the handler runs, the browser applies the
\* cookies of the outcome.
Serve(r, o) ==
  /\ req = NoRequest
  /\ req' = [r EXCEPT !.cookies = jar, !.client = client, !.issued = issued,
                       !.logged_out = hist.logged_out]
  /\ hist' = NextHistory(r, o)
  /\ out' = o
  /\ jar' = ApplyCookies(jar, Delivered(o))
  /\ issued' = LET ops == {i \in 1..Len(Delivered(o)) : Delivered(o)[i].key = ReturnToCookie}
               IN IF ops = {} THEN issued
                  ELSE \A i \in ops : \E j \in ops : j >= i /\ Delivered(o)[j].op = "set"
  /\ UNCHANGED <<client, conc>>

\* GET on a route the host wired to login(return_to); the host may pass on a
\* return_to it took from the request.
LoginRoute ==
  \E return_to \in {"/"} \cup (PolicyReturnTo \ {None}) \cup {"https://evil.example/"} :
    Serve([NoRequest EXCEPT !.handler = "login", !.return_to = return_to],
          Login(client, return_to))

\* GET callback_endpoint through the router (_setup_routes)
CallbackRoute ==
  \E code \in Codes :
    \E exchange \in ExchangeAnswers(code) :
      Serve([NoRequest EXCEPT !.handler = "callback", !.path = CallbackEndpoint,
                              !.url = FullUrl(CallbackEndpoint), !.code = code,
                              !.exchange = exchange],
            Callback(client, code, jar, exchange))

\* A route the host wired to logout(response)
LogoutRoute ==
  Serve([NoRequest EXCEPT !.handler = "logout"], Logout)

\* A route protected by Depends(auth) or Depends(auth.secure(...))
SecureRoute ==
  \E redirect_on_fail \in BOOLEAN, return_to \in PolicyReturnTo,
     path \in AppPaths \ {CallbackEndpoint} :
    \E decode \in DecodeAnswers :
      \E refresh \in RefreshAnswers(decode) :
        Serve([NoRequest EXCEPT !.handler = "secure", !.path = path,
                                !.url = FullUrl(path),
                                !.redirect_on_fail = redirect_on_fail,
                                !.return_to = return_to,
                                !.decode = decode, !.refresh = refresh],
              SecureImpl(client, jar, redirect_on_fail, return_to, FullUrl(path),
                         decode, refresh))

\* A request of an app with TapLockMiddleware installed, on the callback path
MiddlewareCallback ==
  \E redirect_on_fail \in BOOLEAN, return_to \in PolicyReturnTo, code \in Codes :
    \E exchange \in ExchangeAnswers(code) :
      Serve([NoRequest EXCEPT !.handler = "middleware", !.path = CallbackEndpoint,
                              !.url = FullUrl(CallbackEndpoint),
                              !.redirect_on_fail = redirect_on_fail,
                              !.return_to = return_to, !.code = code,
                              !.exchange = exchange],
            Dispatch(client, CallbackEndpoint, jar, redirect_on_fail, return_to,
                     FullUrl(CallbackEndpoint), NotAsked, NotAsked, code, exchange))

\* A request of an app with TapLockMiddleware installed, on any other path
MiddlewareRequest ==
  \E redirect_on_fail \in BOOLEAN, return_to \in PolicyReturnTo,
     path \in AppPaths \ {CallbackEndpoint} :
    \E decode \in DecodeAnswers :
      \E refresh \in RefreshAnswers(decode) :
        Serve([NoRequest EXCEPT !.handler = "middleware", !.path = path,
                                !.url = FullUrl(path),
                                !.redirect_on_fail = redirect_on_fail,
                                !.return_to = return_to,
                                !.decode = decode, !.refresh = refresh],
              Dispatch(client, path, jar, redirect_on_fail, return_to, FullUrl(path),
                       decode, refresh, None, NotAsked))

\* The request is over: its Request, Response and outcome are dropped, and
\* only the browser's cookies and the client binding remain.
EndRequest ==
  /\ req # NoRequest
  /\ req' = NoRequest
  /\ out' = Blank
  /\ UNCHANGED <<client, jar, issued, hist, conc>>

Next ==
  \/ InitClient
  \/ LoginRoute
  \/ CallbackRoute
  \/ LogoutRoute
  \/ SecureRoute
  \/ MiddlewareCallback
  \/ MiddlewareRequest
  \/ EndRequest

Spec == Init /\ [][Next]_vars

(* ------------------------------------------------------------------ *)
(* Vocabulary of the properties                                        *)
(* ------------------------------------------------------------------ *)

\* The last request went through a gate adapter: the per-route gate, or the
\* middleware on a path other than the callback path.
Gated ==
  \/ req.handler = "secure"
  \/ req.handler = "middleware" /\ req.path # CallbackEndpoint

\* The last request was handled by callback: through the router, or through
\* the middleware on the callback path.
IsCallback ==
  \/ req.handler = "callback"
  \/ req.handler = "middleware" /\ req.path = CallbackEndpoint

HasAccessCookie == Truthy(Get(req.cookies, AccessTokenCookie, None))
HasRefreshCookie == Truthy(Get(req.cookies, RefreshTokenCookie, None))

\* The access cookie was present and decode_access_token returned.
DecodeSucceeded == HasAccessCookie /\ req.decode # NotAsked /\ req.decode.ok

\* The access cookie was missing, or decode_access_token raised.
DecodeSkippedOrFailed == ~HasAccessCookie \/ (req.decode # NotAsked /\ ~req.decode.ok)

RefreshSucceeded == HasRefreshCookie /\ req.refresh # NotAsked /\ req.refresh.ok
RefreshFailed == HasRefreshCookie /\ req.refresh # NotAsked /\ ~req.refresh.ok

ExchangeSucceeded == Truthy(req.code) /\ req.exchange # NotAsked /\ req.exchange.ok
ExchangeFailed == Truthy(req.code) /\ req.exchange # NotAsked /\ ~req.exchange.ok

Called(op) == \E i \in 1..Len(out.calls) : out.calls[i].op = op

\* The cookie operations of the outcome on the cookie named key.
CookieOps(key) == {i \in 1..Len(out.cookies) : out.cookies[i].key = key}

\* The outcome is a denial with this status: raised by the per-route gate,
\* returned as a JSON response by the middleware.
DeniedWith(status) ==
  /\ out.kind = IF req.handler = "middleware" THEN "response" ELSE "http_exception"
  /\ out.status = status

\* The outcome sets exactly the cookie named key, to value, with the flags
\* and max-age given, and nothing else.
SetsOnly(key, value, max_age) ==
  /\ Len(out.cookies) = 1
  /\ out.cookies[1].op = "set"
  /\ out.cookies[1].key = key
  /\ out.cookies[1].value = value
  /\ out.cookies[1].max_age = max_age

\* The outcome's cookie named key is written iff the token under field is
\* present and non-empty in data, once, carrying that token.
WritesToken(key, data, field) ==
  IF field \in DOMAIN data /\ data[field] # ""
  THEN /\ Cardinality(CookieOps(key)) = 1
       /\ \A i \in CookieOps(key) :
            out.cookies[i].op = "set" /\ out.cookies[i].value = data[field]
  ELSE CookieOps(key) = {}

(* ------------------------------------------------------------------ *)
(* Properties                                                          *)
(* ------------------------------------------------------------------ *)

\* C1: a gated request whose access cookie is present and decodes is
\* Authorized, exchange_refresh_token is not called, and no cookie is written
\* on the response, whatever the decoded data holds.
C1_ValidAccessWritesNoCookie ==
  (Gated /\ DecodeSucceeded) =>
    /\ out.kind = "authorized"
    /\ ~Called("exchange_refresh_token")
    /\ out.cookies = <<>>

\* C2: a gated request whose access cookie is missing or fails to decode and
\* whose refresh cookie is accepted by exchange_refresh_token is Authorized
\* with the fresh credentials, and the response gets the access cookie and the
\* refresh cookie carrying the new tokens, each once and only if its token is
\* present and non-empty, and no other cookie.
C2_RefreshWritesFreshCookies ==
  (Gated /\ DecodeSkippedOrFailed /\ RefreshSucceeded) =>
    /\ out.kind = "authorized"
    /\ out.token_data = req.refresh.data
    /\ WritesToken(AccessTokenCookie, req.refresh.data, "access_token")
    /\ WritesToken(RefreshTokenCookie, req.refresh.data, "refresh_token")
    /\ \A i \in 1..Len(out.cookies) :
         out.cookies[i].key \in {AccessTokenCookie, RefreshTokenCookie}
    /\ jar = ApplyCookies(req.cookies, out.cookies)

C2_Witness ==
  /\ req.handler = "middleware"
  /\ Gated /\ HasAccessCookie /\ DecodeSkippedOrFailed /\ RefreshSucceeded
  /\ Len(out.cookies) = 2
  /\ out.cookies[1].value = NewAccessToken
  /\ out.cookies[2].value = NewRefreshToken

\* C3 as stated: no access cookie, no refresh cookie, redirect_on_fail false:
\* 401 with detail "not authenticated" and no provider call.
C3_DeniedLowercaseReason ==
  (Gated /\ ~HasAccessCookie /\ ~HasRefreshCookie /\ ~req.redirect_on_fail) =>
    /\ DeniedWith(StatusUnauthorized)
    /\ out.detail = "not authenticated"
    /\ out.calls = <<>>

\* C3 amended: no access cookie, no refresh cookie, redirect_on_fail false:
\* 401 with detail "Not authenticated" (capital N), no provider call and no
\* cookie.
C3_DeniedNotAuthenticated ==
  (Gated /\ ~HasAccessCookie /\ ~HasRefreshCookie /\ ~req.redirect_on_fail) =>
    /\ DeniedWith(StatusUnauthorized)
    /\ out.detail = "Not authenticated"
    /\ out.calls = <<>>
    /\ out.cookies = <<>>

C3_Witness ==
  /\ req.handler = "middleware" /\ Gated /\ req.client = ClientInstance
  /\ ~HasAccessCookie /\ ~HasRefreshCookie /\ ~req.redirect_on_fail
  /\ out.status = StatusUnauthorized

C5_SessionExpiredLowercase ==
  (Gated /\ DecodeSkippedOrFailed /\ RefreshFailed) =>
    /\ out.error = None
    /\ IF req.redirect_on_fail
       THEN /\ DeniedWith(StatusRedirect)
            /\ out.location = AuthorizationUrl
            /\ SetsOnly(ReturnToCookie, Target(req.return_to, req.url), ReturnToMaxAge)
       ELSE /\ DeniedWith(StatusUnauthorized)
            /\ out.detail = "session expired"

\* C5 amended: as C5, with the reason "Session expired" (capital S), which
\* differs from the reason of the no-refresh case; the message of the refresh
\* error appears nowhere in the outcome.
C5_SessionExpired ==
  (Gated /\ DecodeSkippedOrFailed /\ RefreshFailed) =>
    /\ out.error = None
    /\ out.detail # req.refresh.error
    /\ Called("exchange_refresh_token")
    /\ IF req.redirect_on_fail
       THEN /\ DeniedWith(StatusRedirect)
            /\ out.location = AuthorizationUrl
            /\ SetsOnly(ReturnToCookie, Target(req.return_to, req.url), ReturnToMaxAge)
       ELSE /\ DeniedWith(StatusUnauthorized)
            /\ out.detail = "Session expired"
            /\ out.detail # DetailNotAuthenticated
            /\ out.cookies = <<>>

C5_Witness ==
  /\ Gated /\ HasAccessCookie /\ DecodeSkippedOrFailed /\ RefreshFailed
  /\ req.redirect_on_fail
  /\ out.status = StatusRedirect
  /\ ReturnToCookie \in DOMAIN jar

\* C6: a callback whose code exchange_code accepts returns one response: a
\* redirect to the value of the return-to cookie ("/" when the cookie is
\* absent) that sets the credential cookies of the exchange and then clears
\* the return-to cookie; the browser is left with the new credentials and
\* without the return-to cookie.
C6_CallbackSuccessOneResponse ==
  (IsCallback /\ ExchangeSucceeded) =>
    /\ out.kind = "response"
    /\ out.location = IF ReturnToCookie \in DOMAIN req.cookies
                      THEN req.cookies[ReturnToCookie] ELSE "/"
    /\ WritesToken(AccessTokenCookie, req.exchange.data, "access_token")
    /\ WritesToken(RefreshTokenCookie, req.exchange.data, "refresh_token")
    /\ Cardinality(CookieOps(ReturnToCookie)) = 1
    /\ out.cookies[Len(out.cookies)] = DeleteCookie(ReturnToCookie)
    /\ out.calls = <<Call("exchange_code", req.code)>>
    /\ jar = ApplyCookies(req.cookies, out.cookies)
    /\ ReturnToCookie \notin DOMAIN jar

C6_Witness ==
  /\ IsCallback /\ ExchangeSucceeded
  /\ Get(req.cookies, ReturnToCookie, None) = "/dashboard"
  /\ out.location = "/dashboard"
  /\ Len(out.cookies) = 3
  /\ Get(jar, AccessTokenCookie, None) = NewAccessToken
  /\ Get(jar, RefreshTokenCookie, None) = NewRefreshToken

\* C7: after a completed callback that carried a code and the return-to
\* cookie left by login, the return-to cookie has been cleared, exactly once,
\* whether the code exchange succeeded or failed.
C7_ReturnToClearedOnAllPaths ==
  (IsCallback /\ req.client = ClientInstance /\ Truthy(req.code)
     /\ ReturnToCookie \in DOMAIN req.cookies /\ req.issued) =>
    /\ Cardinality(CookieOps(ReturnToCookie)) = 1
    /\ ReturnToCookie \notin DOMAIN jar

\* C8: a callback whose code exchange_code rejects fails with a 400 whose
\* detail carries the provider's message, and sets or deletes no cookie.
C8_ExchangeFailedTouchesNoCookie ==
  (IsCallback /\ ExchangeFailed) =>
    /\ out.kind = "http_exception"
    /\ out.status = StatusBadRequest
    /\ out.detail = "Failed to exchange code: " \o req.exchange.error
    /\ out.cookies = <<>>
    /\ jar = req.cookies

C8_Witness ==
  /\ IsCallback /\ ExchangeFailed
  /\ req.handler = "callback"
  /\ ReturnToCookie \in DOMAIN req.cookies
  /\ AccessTokenCookie \in DOMAIN req.cookies
  /\ out.status = StatusBadRequest

\* C9: a callback without a code (absent or empty) fails with 400, calls no
\* provider operation, sets and deletes no cookie, and leaves the browser's
\* cookies and the client binding as they were; its outcome is the same
\* whatever else the request carries, so repeated calls give the same result.
C9_NoCodeIs400 ==
  (IsCallback /\ ~Truthy(req.code)) =>
    /\ out = HTTPException(StatusBadRequest, "Authorization code not found",
                           None, <<>>, <<>>)
    /\ out.status = 400
    /\ out.calls = <<>>
    /\ out.cookies = <<>>
    /\ jar = req.cookies
    /\ client = req.client

C9_Witness ==
  /\ IsCallback /\ req.code = ""
  /\ req.client = ClientInstance
  /\ ReturnToCookie \in DOMAIN req.cookies
  /\ out.status = StatusBadRequest

\* C10: login, callback or a gated resolution on a TapLock on which no init_*
\* call has completed fails with the configuration fault ("client not
\* initialized"), before any provider operation and any cookie write.
C10_UninitializedFailsLoudly ==
  (req.handler \in {"login", "callback", "secure", "middleware"}
     /\ req.client # ClientInstance) =>
    /\ out.kind = "error"
    /\ out.error = NotInitializedMessage
    /\ out.calls = <<>>
    /\ out.cookies = <<>>

(* ------------------------------------------------------------------ *)
(* C11: the middleware on the callback path                            *)
(* ------------------------------------------------------------------ *)

\* The last request went through the middleware on the callback path.
MiddlewareOnCallbackPath == req.handler = "middleware" /\ req.path = CallbackEndpoint

\* C11: for a request whose path equals the callback path the middleware
\* runs no session resolution (no decode_access_token, no
\* exchange_refresh_token call), never invokes the downstream handler, and
\* its result is exactly the callback handler's result for that request,
\* whatever cookies the request carries.
C11_CallbackBypassesResolver ==
  MiddlewareOnCallbackPath =>
    /\ ~Called("decode_access_token")
    /\ ~Called("exchange_refresh_token")
    /\ out.downstream = 0
    /\ out = Callback(req.client, req.code, req.cookies, req.exchange)

\* A middleware request on the callback path that carries both credential
\* cookies and a return-to cookie, and whose code was exchanged.
C11_Witness ==
  /\ MiddlewareOnCallbackPath
  /\ HasAccessCookie /\ HasRefreshCookie
  /\ ReturnToCookie \in DOMAIN req.cookies
  /\ ExchangeSucceeded
  /\ out.kind = "response"

(* ------------------------------------------------------------------ *)
(* C12: the middleware on any other path                               *)
(* ------------------------------------------------------------------ *)

\* The last request went through the middleware on a path other than the
\* callback path.
MiddlewareOnOtherPath == req.handler = "middleware" /\ req.path # CallbackEndpoint

\* The resolution of the last gated request returned token data: the access
\* token decoded, or the refresh token was exchanged.
ResolvedAuthorized == DecodeSucceeded \/ RefreshSucceeded

\* C12: on a non-callback path the middleware invokes the downstream handler
\* iff the resolution is authorized: a denial or a redirect is returned as
\* the 401 or 307 response without invoking downstream; when authorized,
\* downstream is invoked exactly once and the credentials are written only
\* afterwards, onto the response downstream returned.
C12_DownstreamIffAuthorized ==
  MiddlewareOnOtherPath =>
    /\ out.downstream = (IF out.kind = "authorized" THEN 1 ELSE 0)
    /\ req.client = ClientInstance =>
          /\ out.kind \in {"authorized", "response"}
          /\ out.kind = "authorized" <=> ResolvedAuthorized
    /\ out.kind = "authorized" =>
          /\ out.steps = <<"call_next", "_set_cookies">>
          /\ out.cookies = SetCookies(<<>>, out.token_data)
    /\ out.kind # "authorized" =>
          /\ out.steps = <<>>
          /\ out.kind = "response" => out.status \in {StatusUnauthorized, StatusRedirect}

\* The middleware let a request through after a refresh and wrote the fresh
\* credentials onto the downstream response.
C12_Witness ==
  /\ MiddlewareOnOtherPath
  /\ RefreshSucceeded
  /\ out.downstream = 1
  /\ Len(out.cookies) = 2

\* The middleware answered a request itself, without the downstream handler.
C12_WitnessDenied ==
  /\ MiddlewareOnOtherPath
  /\ out.kind = "response"
  /\ out.downstream = 0

(* ------------------------------------------------------------------ *)
(* C13: the per-route gate and the middleware agree                    *)
(* ------------------------------------------------------------------ *)

\* What a client observes of an outcome, whichever adapter produced it: the
\* outcome kind (an HTTPException of the per-route gate and the JSON response
\* of the middleware are both a refusal), the status, the denial reason, the
\* Location and the cookie operations.
Observable(o) ==
  [kind |-> IF o.kind \in {"http_exception", "response"} THEN "refused" ELSE o.kind,
   status |-> o.status, detail |-> o.detail, location |-> o.location,
   cookies |-> o.cookies]

\* The outcome of the per-route gate on the inputs of the last request.
PerRouteOutcome ==
  SecureImpl(req.client, req.cookies, req.redirect_on_fail, req.return_to,
             req.url, req.decode, req.refresh)

\* The outcome of the middleware on the inputs of the last request.
MiddlewareOutcome ==
  Dispatch(req.client, req.path, req.cookies, req.redirect_on_fail, req.return_to,
           req.url, req.decode, req.refresh, req.code, req.exchange)

\* C13: on the same request cookies, the same policy and the same provider
\* answers, the per-route gate and the middleware on a non-callback path
\* produce the same outcome kind, status and denial reason, the same
\* Location and return-to cookie on a redirect, and the same credential
\* cookies on the response.
C13_AdaptersAgree ==
  Gated =>
    /\ out = (IF req.handler = "secure" THEN PerRouteOutcome ELSE MiddlewareOutcome)
    /\ Observable(PerRouteOutcome) = Observable(MiddlewareOutcome)

\* A per-route request authorized by a refresh that wrote both credential
\* cookies, as the middleware does on the same inputs.
C13_Witness ==
  /\ req.handler = "secure"
  /\ RefreshSucceeded
  /\ Len(out.cookies) = 2
  /\ MiddlewareOutcome.downstream = 1

\* A middleware request redirected to login with the return-to cookie, as
\* the per-route gate does on the same inputs.
C13_WitnessRedirect ==
  /\ MiddlewareOnOtherPath
  /\ out.status = StatusRedirect
  /\ Len(out.cookies) = 1
  /\ PerRouteOutcome.kind = "http_exception"

(* ------------------------------------------------------------------ *)
(* C14: the Location of the callback redirect                          *)
(* ------------------------------------------------------------------ *)

\* u is "/" or a path relative to the application's own origin: it starts
\* with one "/" that neither "/" nor a backslash follows.
IsSameOriginRelative(u) ==
  /\ Len(u) >= 1
  /\ SubSeq(u, 1, 1) = "/"
  /\ Len(u) >= 2 => SubSeq(u, 2, 2) \notin {"/", "\\"}

\* C14: the return-to value is validated before it is used: the Location of
\* every callback redirect is "/" or a same-origin relative path, never an
\* absolute URL taken unchecked from the return-to cookie or from a
\* return_to the caller supplied.
C14_CallbackLocationIsRelative ==
  (IsCallback /\ out.kind = "response") => IsSameOriginRelative(out.location)

\* The callback redirected to "/" or a relative path.
C14_RelativeReached ==
  /\ IsCallback /\ out.kind = "response"
  /\ IsSameOriginRelative(out.location)

\* After login("https://evil.example/") set the return-to cookie, the
\* callback redirected the browser to that URL.
C14_OpenRedirectReached ==
  /\ IsCallback /\ out.kind = "response"
  /\ req.issued
  /\ out.location = "https://evil.example/"

(* ------------------------------------------------------------------ *)
(* C15: the attributes of the cookies set                              *)
(* ------------------------------------------------------------------ *)

\* The cookies the outcome sets (a delete_cookie is no set).
CookiesSet == {i \in 1..Len(out.cookies) : out.cookies[i].op = "set"}

\* C15: every cookie the gate sets carries HttpOnly, Secure and
\* SameSite=Lax; the access and the refresh cookie are set without max-age
\* (session cookies); the return-to cookie is set with Max-Age=300, under a
\* name different from both credential cookie names.
C15_CookieAttributes ==
  \A i \in CookiesSet :
    LET c == out.cookies[i]
    IN /\ c.httponly /\ c.secure /\ c.samesite = "lax"
       /\ c.key \in {AccessTokenCookie, RefreshTokenCookie, ReturnToCookie}
       /\ c.key \in {AccessTokenCookie, RefreshTokenCookie} => c.max_age = NoMaxAge
       /\ c.key = ReturnToCookie =>
            /\ c.max_age = ReturnToMaxAge
            /\ c.key \notin {AccessTokenCookie, RefreshTokenCookie}

\* A response that set both credential cookies.
C15_Witness ==
  /\ \E i \in CookiesSet : out.cookies[i].key = AccessTokenCookie
  /\ \E i \in CookiesSet : out.cookies[i].key = RefreshTokenCookie

\* A response that set the return-to cookie.
C15_WitnessReturnTo ==
  \E i \in CookiesSet : out.cookies[i].key = ReturnToCookie

(* ------------------------------------------------------------------ *)
(* C16: the provider calls of one resolution                           *)
(* ------------------------------------------------------------------ *)

\* The positions of the calls of op among the provider calls of the outcome.
CallIndices(op) == {i \in 1..Len(out.calls) : out.calls[i].op = op}

\* The gated request was refused: denied with 401 or redirected with 307.
Refused == DeniedWith(StatusUnauthorized) \/ DeniedWith(StatusRedirect)

\* C16: within one resolution decode_access_token is called at most once and
\* only when an access cookie is present; exchange_refresh_token is called
\* at most once, only after decode was skipped or failed, and, when a
\* refresh cookie is present, always before a denial or a redirect is
\* produced; no denial or redirect comes from a failed decode alone while a
\* refresh cookie is present.
C16_ProviderCallsOrdered ==
  Gated =>
    /\ Cardinality(CallIndices("decode_access_token")) <= 1
    /\ Called("decode_access_token") => HasAccessCookie
    /\ Cardinality(CallIndices("exchange_refresh_token")) <= 1
    /\ Called("exchange_refresh_token") =>
          /\ HasRefreshCookie
          /\ req.client = ClientInstance => DecodeSkippedOrFailed
          /\ \A i \in CallIndices("decode_access_token") :
               \A j \in CallIndices("exchange_refresh_token") : i < j
    /\ (Refused /\ HasRefreshCookie) =>
          /\ Called("exchange_refresh_token")
          /\ req.client = ClientInstance => RefreshFailed
          /\ \A i \in CallIndices("exchange_refresh_token") :
               \A j \in CallIndices("get_authorization_url") : i < j
          /\ DeniedWith(StatusUnauthorized) => out.detail = DetailSessionExpired

\* A request with both cookies whose decode failed and whose refresh failed
\* was redirected to login: decode, then refresh, then the authorization URL.
C16_Witness ==
  /\ Gated /\ HasAccessCookie /\ HasRefreshCookie
  /\ req.client = ClientInstance
  /\ DecodeSkippedOrFailed /\ RefreshFailed
  /\ DeniedWith(StatusRedirect)
  /\ Len(out.calls) = 3

(* ------------------------------------------------------------------ *)
(* C17: where credential cookies come from                             *)
(* ------------------------------------------------------------------ *)

\* The outcome sets the access or the refresh cookie.
CredentialCookieSet ==
  \E i \in CookiesSet : out.cookies[i].key \in {AccessTokenCookie, RefreshTokenCookie}

\* The request ended in a denial, a redirect to login or an error.
EndedWithoutAdmission ==
  \/ Gated /\ out.kind # "authorized"
  \/ IsCallback /\ out.kind # "response"
  \/ req.handler = "login"

\* C17: a credential cookie appears on a response only if exchange_code or
\* exchange_refresh_token returned successfully earlier in the same request;
\* a request that ends in a denial, a redirect to login or an error has
\* written no credential cookie; login writes only the return-to cookie.
C17_CredentialsOnlyFromExchange ==
  /\ CredentialCookieSet =>
        \/ IsCallback /\ ExchangeSucceeded
        \/ Gated /\ RefreshSucceeded
  /\ EndedWithoutAdmission => ~CredentialCookieSet
  /\ req.handler = "login" =>
        \A i \in 1..Len(out.cookies) : out.cookies[i].key = ReturnToCookie

\* The same, apart from the requests admitted on a decoded access token
\* (the case of C1).
C17_ApartFromDecoded ==
  DecodeSucceeded \/ C17_CredentialsOnlyFromExchange

\* A request admitted on a decoded access token, with no exchange in the
\* request, set a credential cookie.
C17_CookieFromDecodeReached ==
  /\ Gated /\ DecodeSucceeded
  /\ ~Called("exchange_refresh_token")
  /\ CredentialCookieSet

(* ------------------------------------------------------------------ *)
(* C18: the login round trip                                           *)
(* ------------------------------------------------------------------ *)

\* The callback of a round trip has just answered: a gated request to
\* hist.url without credential cookies and without explicit return_to was
\* redirected to login, and the callback that followed, with the cookies the
\* redirect set, had its code exchanged.
RoundTripCallback == req # NoRequest /\ hist.stage = 2

\* The gated request to hist.url that follows that callback has just been
\* answered.
RoundTripReturn == req # NoRequest /\ hist.stage = 3

\* C18: from a browser without credential cookies, a gated request to URL U
\* under redirect_on_fail with no explicit return_to, followed by a callback
\* whose code the provider accepts, ends in a redirect to exactly U that
\* sets the credential cookies issued; the gated request to U that follows
\* carries the issued access token and is authorized when the provider
\* decodes it.
C18_RoundTripReturnsToUrl ==
  /\ RoundTripCallback =>
        /\ out.kind = "response" /\ out.status = StatusRedirect
        /\ out.location = hist.url
        /\ WritesToken(AccessTokenCookie, req.exchange.data, "access_token")
        /\ WritesToken(RefreshTokenCookie, req.exchange.data, "refresh_token")
        /\ Truthy(hist.token) => Get(jar, AccessTokenCookie, None) = hist.token
  /\ (RoundTripReturn /\ Truthy(hist.token)) =>
        /\ Get(req.cookies, AccessTokenCookie, None) = hist.token
        /\ req.decode # NotAsked
        /\ req.decode.ok => out.kind = "authorized"

\* The whole round trip happened: the request after the callback carried the
\* issued access token and was authorized.
C18_Witness ==
  /\ RoundTripReturn
  /\ hist.url = FullUrl("/dashboard")
  /\ hist.token = NewAccessToken
  /\ DecodeSucceeded
  /\ out.kind = "authorized"

(* ------------------------------------------------------------------ *)
(* Concurrent requests, step by step                                   *)
(* ------------------------------------------------------------------ *)

\* The URL of the concurrent requests.
ConcUrl == FullUrl("/dashboard")

\* The cookies a concurrent request may carry.
ConcCookies ==
  { CookieDict(a, r, None) : a \in {None} \cup AccessTokens,
                             r \in {None} \cup RefreshTokens }

\* The provider's answers to request i are told apart from its answers to
\* the other requests: the claims it decodes for i, the tokens it mints for i.
ClaimsFor(i) == TokenData(None, None, "claims " \o ToString(i))
MintedFor(i) ==
  TokenData(NewAccessToken \o ToString(i), NewRefreshToken \o ToString(i),
            "claims " \o ToString(i))

ConcDecodeAnswers(i, cookies) ==
  IF Truthy(Get(cookies, AccessTokenCookie, None))
  THEN {Returned(ClaimsFor(i))} \cup {Raised(m) : m \in ErrorMessages}
  ELSE {NotAsked}

\* A de-duplicating gate: a request whose refresh token another request in
\* flight has already exchanged gets that request's answer.
ConcRefreshAnswersShared(i, c) ==
  LET others == {j \in ConcRequests \ {i} :
                   /\ c[j].refresh # NotAsked
                   /\ Get(c[j].cookies, RefreshTokenCookie, None)
                        = Get(c[i].cookies, RefreshTokenCookie, None)}
  IN IF others # {} THEN {c[j].refresh : j \in others}
     ELSE {Returned(MintedFor(i))} \cup {Raised(m) : m \in ErrorMessages}

\* The answers request i may get from its own
\* await self.client.exchange_refresh_token(refresh_token), whatever the
\* requests in flight c.
ConcRefreshAnswers(i, c) ==
  {Returned(MintedFor(i))} \cup {Raised(m) : m \in ErrorMessages}

\* The adapter's outcome once the resolver returned token_data:
\* _secure_impl lines 170-171, dispatch lines 242-244.
Admitted(handler, token_data, calls) ==
  IF handler = "middleware"
  THEN [Blank EXCEPT !.kind = "authorized", !.token_data = token_data,
                     !.calls = calls, !.downstream = 1,
                     !.cookies = SetCookies(<<>>, token_data),
                     !.steps = <<"call_next", "_set_cookies">>]
  ELSE [Blank EXCEPT !.kind = "authorized", !.token_data = token_data,
                     !.calls = calls,
                     !.cookies = SetCookies(<<>>, token_data),
                     !.claims = Get(token_data, "fields", token_data),
                     !.steps = <<"_set_cookies">>]

\* The adapter's outcome once the resolver raised e: _secure_impl lets it go
\* on, dispatch turns an HTTPException into a JSONResponse (lines 235-240).
Refusal(handler, e) ==
  IF handler = "middleware" /\ e.kind = "http_exception"
  THEN [e EXCEPT !.kind = "response",
                 !.detail = IF Truthy(e.detail) THEN e.detail ELSE DetailFallback]
  ELSE e

\* Request i arrives and runs to its first suspension point or to its end:
\* _handle_request lines 128-146 (decode_access_token is synchronous).
ConcBegin(i) ==
  /\ conc[i].pc = "idle"
  /\ \E handler \in {"secure", "middleware"}, cookies \in ConcCookies,
        redirect_on_fail \in BOOLEAN :
       \E decode \in ConcDecodeAnswers(i, cookies) :
         LET access_token == Get(cookies, AccessTokenCookie, None)
             refresh_token == Get(cookies, RefreshTokenCookie, None)
             decoded == ProviderCall(client, decode)
             calls1 == IF Truthy(access_token)
                       THEN <<Call("decode_access_token", access_token)>>
                       ELSE <<>>
             r == [IdleRequest EXCEPT !.handler = handler, !.cookies = cookies,
                                      !.redirect_on_fail = redirect_on_fail,
                                      !.decode = decode, !.calls = calls1]
         IN conc' = [conc EXCEPT ![i] =
              IF Truthy(access_token) /\ decoded.ok
              THEN IF handler = "middleware"
                   THEN [r EXCEPT !.pc = "await_call_next", !.token_data = decoded.data]
                   ELSE [r EXCEPT !.pc = "done", !.token_data = decoded.data,
                                  !.result = Admitted(handler, decoded.data, calls1)]
              ELSE IF ~Truthy(refresh_token)
              THEN [r EXCEPT !.pc = "done",
                             !.result = Refusal(handler,
                                 FailBranch(client, redirect_on_fail, None, ConcUrl,
                                            DetailNotAuthenticated, calls1))]
              ELSE [r EXCEPT !.pc = "await_refresh",
                             !.calls = Append(calls1,
                                 Call("exchange_refresh_token", refresh_token))]]
  /\ UNCHANGED <<client, jar, req, out, issued, hist>>

\* The exchange_refresh_token call of request i returns or raises, and the
\* request runs on: _handle_request lines 147-155.
ConcRefreshReturns(i) ==
  /\ conc[i].pc = "await_refresh"
  /\ \E refresh \in ConcRefreshAnswers(i, conc) :
       LET r == [conc[i] EXCEPT !.refresh = refresh]
           refreshed == ProviderCall(client, refresh)
       IN conc' = [conc EXCEPT ![i] =
            IF refreshed.ok
            THEN IF r.handler = "middleware"
                 THEN [r EXCEPT !.pc = "await_call_next", !.token_data = refreshed.data]
                 ELSE [r EXCEPT !.pc = "done", !.token_data = refreshed.data,
                                !.result = Admitted(r.handler, refreshed.data, r.calls)]
            ELSE [r EXCEPT !.pc = "done",
                           !.result = Refusal(r.handler,
                               FailBranch(client, r.redirect_on_fail, None, ConcUrl,
                                          DetailSessionExpired, r.calls))]]
  /\ UNCHANGED <<client, jar, req, out, issued, hist>>

\* The downstream handler of request i returns its response: dispatch lines
\* 242-244.
ConcCallNextReturns(i) ==
  /\ conc[i].pc = "await_call_next"
  /\ conc' = [conc EXCEPT ![i] =
       [conc[i] EXCEPT !.pc = "done",
                       !.result = Admitted("middleware", conc[i].token_data, conc[i].calls)]]
  /\ UNCHANGED <<client, jar, req, out, issued, hist>>

\* Request i is abandoned at a suspension point (the client went away, the
\* task was cancelled): no statement after the await runs.
ConcCancel(i) ==
  /\ conc[i].pc \in {"await_refresh", "await_call_next"}
  /\ conc' = [conc EXCEPT ![i] = [conc[i] EXCEPT !.pc = "cancelled"]]
  /\ UNCHANGED <<client, jar, req, out, issued, hist>>

\* Request i is over and its task is gone.
ConcForget(i) ==
  /\ conc[i].pc \in {"done", "cancelled"}
  /\ conc' = [conc EXCEPT ![i] = IdleRequest]
  /\ UNCHANGED <<client, jar, req, out, issued, hist>>

\* After initialization, no request yet.
ConcInit ==
  /\ client = ClientInstance
  /\ jar = EmptyDict
  /\ req = NoRequest
  /\ out = Blank
  /\ issued = FALSE
  /\ hist = NoHistory
  /\ conc = NoneInFlight

ConcNext ==
  \E i \in ConcRequests :
    \/ ConcBegin(i)
    \/ ConcRefreshReturns(i)
    \/ ConcCallNextReturns(i)
    \/ ConcCancel(i)
    \/ ConcForget(i)

ConcSpec == ConcInit /\ [][ConcNext]_vars

(* ------------------------------------------------------------------ *)
(* C19: concurrent requests do not interfere                           *)
(* ------------------------------------------------------------------ *)

\* The outcome of request r served alone, in one piece, on its own cookies,
\* policy and provider answers.
ServedAlone(r) ==
  IF r.handler = "secure"
  THEN SecureImpl(client, r.cookies, r.redirect_on_fail, None, ConcUrl,
                  r.decode, r.refresh)
  ELSE Dispatch(client, "/dashboard", r.cookies, r.redirect_on_fail, None, ConcUrl,
                r.decode, r.refresh, None, NotAsked)

\* Request r had to exchange its refresh token: it carries one and was not
\* admitted on its access token.
NeedsRefresh(r) ==
  /\ r.pc # "idle"
  /\ Truthy(Get(r.cookies, RefreshTokenCookie, None))
  /\ ~(Truthy(Get(r.cookies, AccessTokenCookie, None)) /\ r.decode.ok)

\* Request r made its own exchange_refresh_token call with its own token.
OwnRefreshCall(r) ==
  \E k \in 1..Len(r.calls) :
    r.calls[k] = Call("exchange_refresh_token", Get(r.cookies, RefreshTokenCookie, None))

\* C19: under any interleaving of concurrent gated requests after
\* initialization, each request's outcome and cookie writes are those it
\* gets when served alone on its own cookies, policy and provider answers;
\* each request that needs a refresh makes its own exchange_refresh_token
\* call, also when another request carries the same tokens; and no request
\* holds claims or credentials the provider returned to another request.
C19_RequestsIndependent ==
  \A i \in ConcRequests :
    LET r == conc[i]
    IN /\ r.pc = "done" => r.result = ServedAlone(r)
       /\ r.pc # "done" => r.result = Blank
       /\ NeedsRefresh(r) => OwnRefreshCall(r)
       /\ r.token_data \in {EmptyDict, ClaimsFor(i), MintedFor(i)}
       /\ r.refresh \in {NotAsked} \cup ConcRefreshAnswers(i, conc)

\* Two requests carry the same access token, which does not decode, and the
\* same refresh token; each made its own exchange_refresh_token call; the
\* first was admitted on the tokens minted for it while the second still
\* awaits the answer to its own call.
C19_Witness ==
  /\ conc[1].cookies = conc[2].cookies
  /\ NeedsRefresh(conc[1]) /\ NeedsRefresh(conc[2])
  /\ Truthy(Get(conc[1].cookies, AccessTokenCookie, None))
  /\ OwnRefreshCall(conc[1]) /\ OwnRefreshCall(conc[2])
  /\ conc[1].pc = "done" /\ conc[1].result.kind = "authorized"
  /\ conc[1].token_data = MintedFor(1)
  /\ conc[2].pc = "await_refresh"

\* Both requests, with the same cookies, were admitted, each on the tokens
\* minted for it.
C19_WitnessBothAdmitted ==
  /\ conc[1].cookies = conc[2].cookies
  /\ NeedsRefresh(conc[1]) /\ NeedsRefresh(conc[2])
  /\ conc[1].pc = "done" /\ conc[1].token_data = MintedFor(1)
  /\ conc[2].pc = "done" /\ conc[2].token_data = MintedFor(2)

\* A request abandoned at a suspension point has produced no response and
\* written no cookie (the abandonment case of C17).
AbandonedWritesNothing ==
  \A i \in ConcRequests :
    conc[i].pc = "cancelled" => conc[i].result.cookies = <<>>

\* A request was abandoned while its refresh call was under way.
AbandonedReached ==
  \E i \in ConcRequests : conc[i].pc = "cancelled" /\ OwnRefreshCall(conc[i])

(* ------------------------------------------------------------------ *)
(* C20: logout                                                         *)
(* ------------------------------------------------------------------ *)

\* The logout response deletes the access cookie and the refresh cookie and
\* touches no other cookie.
LogoutDeletesCredentials ==
  req.handler = "logout" =>
    out.cookies = <<DeleteCookie(AccessTokenCookie), DeleteCookie(RefreshTokenCookie)>>

\* The last request is a gated request of a browser that applied a logout
\* response, with no callback or refresh having succeeded since.
GatedAfterLogout == Gated /\ req.logged_out

\* C20 as stated: logout deletes both credential cookies and touches no
\* other cookie; from a logout until a later callback or refresh succeeds,
\* every gated request of the browser resolves to a denial with reason
\* "not authenticated" or to a redirect to login, without any provider
\* call, and never to authorized.
C20_AfterLogoutNoProviderCall ==
  /\ LogoutDeletesCredentials
  /\ GatedAfterLogout =>
        /\ out.kind # "authorized"
        /\ out.calls = <<>>
        /\ \/ DeniedWith(StatusUnauthorized) /\ out.detail = "not authenticated"
           \/ DeniedWith(StatusRedirect)

\* C20, amended: the reason is "Not authenticated"; no decode_access_token
\* and no exchange_refresh_token call is made; a denial makes no provider
\* call at all, a redirect to login makes the one get_authorization_url
\* call that builds its Location.
C20_AfterLogoutNotAuthorized ==
  /\ LogoutDeletesCredentials
  /\ GatedAfterLogout =>
        /\ out.kind # "authorized"
        /\ ~Called("decode_access_token")
        /\ ~Called("exchange_refresh_token")
        /\ req.client = ClientInstance =>
              \/ /\ DeniedWith(StatusUnauthorized)
                 /\ out.detail = DetailNotAuthenticated
                 /\ out.calls = <<>>
              \/ /\ DeniedWith(StatusRedirect)
                 /\ out.location = AuthorizationUrl
                 /\ out.calls = <<Call("get_authorization_url", None)>>

\* After a logout, a gated request of the browser was redirected to login.
C20_Witness ==
  /\ GatedAfterLogout
  /\ req.client = ClientInstance
  /\ DeniedWith(StatusRedirect)

\* After a logout, a gated request of the browser was denied.
C20_WitnessDenied ==
  /\ GatedAfterLogout
  /\ req.client = ClientInstance
  /\ DeniedWith(StatusUnauthorized)

====
